---- MODULE Spec2Model ----
(***************************************************************************)
(* A model of mpt-rs: a Merkle Patricia Trie over a hash-addressed node    *)
(* store (src/src/mpt.rs, node.rs, hex_prefix.rs, proof.rs).               *)
(*                                                                         *)
(* Bytes are integers 0..255, nibbles integers 0..15.  An RLP encoding is  *)
(* kept as the RLP tree it denotes (byte string / 32-byte digest / list)   *)
(* together with its encoded length RlpLen; Keccak-256 is an injective     *)
(* symbolic digest of the encoding it was computed from.                   *)
(***************************************************************************)
EXTENDS Integers, Sequences, FiniteSets, TLC

(***************************************************************************)
(* Bounds of the model.                                                    *)
(***************************************************************************)
MaxInserts == 2
MaxCommits == 3
MaxReverts == 2
MaxProofs  == 1
MaxTampers == 1
MaxFails   == 1
MaxEdits   == 3

(***************************************************************************)
(* Program constants.                                                      *)
(***************************************************************************)
\* a digest of 8 bytes: its reference is shorter than the 32-byte threshold
KEY_LEN_8 == 32 \div 4

KEY_LEN   == 32
ODD_MASK  == 16
FLAG_MASK == 32

(***************************************************************************)
(* Inputs: application keys and values are byte strings.                   *)
(*   "a" = <<97>>, "q" = <<113>>, and the one-byte keys 0x81, 0x82.        *)
(***************************************************************************)
LongValue == [i \in 1..32 |-> 100]
Keys      == {<<97>>, <<113>>, <<129>>, <<130>>}
Values    == {<<120>>, LongValue}

NoneVal == [t |-> "none"]

(***************************************************************************)
(* serlp::rlp::to_bytes / from_bytes on a byte string (keys and values).   *)
(***************************************************************************)
to_bytes(b) ==
    IF Len(b) = 1 /\ b[1] < 128 THEN b ELSE <<128 + Len(b)>> \o b

\* from_bytes: the empty input is not an RLP item
from_bytes(e) ==
    IF e = <<>> THEN [st |-> "Err", err |-> "EncodingError"]
    ELSE IF Len(e) = 1 /\ e[1] < 128 THEN [st |-> "Some", v |-> e]
    ELSE IF e[1] = 128 + Len(e) - 1 THEN [st |-> "Some", v |-> Tail(e)]
    ELSE [st |-> "Err", err |-> "EncodingError"]

(***************************************************************************)
(* Nibble algebra (hex_prefix.rs).                                         *)
(***************************************************************************)
\* x & m for a mask m = 2^k - 1
AndLow(x, m) == x % (m + 1)

\* [x & 0xf0 >> 4, x & 0x0f]: in Rust >> binds tighter than &, so the first
\* element is x & (0xf0 >> 4) = x & 0x0f
bytes_to_nibbles(src) ==
    [i \in 1..(2 * Len(src)) |->
        IF i % 2 = 1 THEN AndLow(src[(i + 1) \div 2], 240 \div 16)
                     ELSE AndLow(src[i \div 2], 15)]

RECURSIVE PrefixLen(_, _, _)
PrefixLen(a, b, i) ==
    IF i < Len(a) /\ i < Len(b) /\ a[i + 1] = b[i + 1]
    THEN PrefixLen(a, b, i + 1) ELSE i

\* (shared, rest of a, rest of b)
common_prefix(a, b) ==
    LET split(i) == <<SubSeq(a, 1, i), SubSeq(a, i + 1, Len(a)), SubSeq(b, i + 1, Len(b))>>
    IN split(PrefixLen(a, b, 0))

\* x.chunks(2).map(|two| (two[0] << 4) | two[1]) on u8
encode_nibbles(x) ==
    [i \in 1..(Len(x) \div 2) |-> ((x[2 * i - 1] * 16) % 256) + x[2 * i]]

hex_prefix_encode(src, flag) ==
    LET f == IF flag THEN 1 ELSE 0
    IN IF Len(src) % 2 = 1
       THEN <<(((f * 2) + 1) * 16) + src[1]>> \o encode_nibbles(Tail(src))
       ELSE <<(f * 2) * 16>> \o encode_nibbles(src)

\* hex_prefix_decode with the two masks exchanged
hex_prefix_decode_masks_swapped(src) ==
    LET encoded == Tail(src)
        odd     == (src[1] \div FLAG_MASK) % 2 = 1
        rest    == [i \in 1..(2 * Len(encoded)) |->
                      IF i % 2 = 1 THEN encoded[(i + 1) \div 2] \div 16
                                   ELSE encoded[i \div 2] % 16]
    IN [nibbles |-> (IF odd THEN <<src[1] % 16>> ELSE <<>>) \o rest,
        flag    |-> (src[1] \div ODD_MASK) % 2 = 1]

\* src is non-empty here; the empty slice panics (hex_prefix.rs:34)
hex_prefix_decode(src) ==
    LET encoded == Tail(src)
        odd     == (src[1] \div ODD_MASK) % 2 = 1
        rest    == [i \in 1..(2 * Len(encoded)) |->
                      IF i % 2 = 1 THEN encoded[(i + 1) \div 2] \div 16
                                   ELSE encoded[i \div 2] % 16]
    IN [nibbles |-> (IF odd THEN <<src[1] % 16>> ELSE <<>>) \o rest,
        flag    |-> (src[1] \div FLAG_MASK) % 2 = 1]

(***************************************************************************)
(* Node model (node.rs).                                                   *)
(***************************************************************************)
LeafNode(remained, value)      == [type |-> "Leaf", remained |-> remained, value |-> value]
ExtensionNode(shared, subtree) == [type |-> "Extension", shared |-> shared, subtree |-> subtree]
BranchNode(branchs, value)     == [type |-> "Branch", branchs |-> branchs, value |-> value]

SubEmpty      == [kind |-> "Empty"]
SubNode(n)    == [kind |-> "Node", node |-> n]
SubNodeKey(h) == [kind |-> "NodeKey", key |-> h]

BranchNode_new == BranchNode([i \in 1..16 |-> SubEmpty], <<>>)

\* outcomes that are not a node: an Err result or a panic
ErrNode(e) == [type |-> "Err", err |-> e]
PanicNode  == [type |-> "Panic"]
IsBad(n)   == n.type \in {"Err", "Panic"}

(***************************************************************************)
(* RLP trees and their encoded length.                                     *)
(***************************************************************************)
RlpStr(b)   == [t |-> "s", b |-> b]
RlpHash(h)  == [t |-> "k", h |-> h]
RlpList(xs) == [t |-> "l", items |-> xs]

HeaderLen(n) == IF n < 56 THEN 1 ELSE IF n < 256 THEN 2 ELSE 3

RECURSIVE RlpLen(_), RlpSum(_, _)
RlpLen(it) ==
    IF it.t = "s"
    THEN IF Len(it.b) = 1 /\ it.b[1] < 128 THEN 1
         ELSE HeaderLen(Len(it.b)) + Len(it.b)
    ELSE IF it.t = "k" THEN 1 + KEY_LEN
    ELSE LET Total(p) == HeaderLen(p) + p IN Total(RlpSum(it.items, 1))

RlpSum(xs, i) == IF i > Len(xs) THEN 0 ELSE RlpLen(xs[i]) + RlpSum(xs, i + 1)

keccak256(rlp) == [keccak |-> rlp]

(***************************************************************************)
(* Serialization of nodes (node.rs Serialize impls).                       *)
(***************************************************************************)
RECURSIVE NodeRlp(_), SubtreeRlp(_)
NodeRlp(n) ==
    IF n.type = "Leaf"
    THEN RlpList(<<RlpStr(hex_prefix_encode(n.remained, TRUE)), RlpStr(n.value)>>)
    ELSE IF n.type = "Extension"
    THEN RlpList(<<RlpStr(hex_prefix_encode(n.shared, FALSE)), SubtreeRlp(n.subtree)>>)
    ELSE RlpList([i \in 1..17 |->
                    IF i <= 16 THEN SubtreeRlp(n.branchs[i]) ELSE RlpStr(n.value)])

SubtreeRlp(s) ==
    IF s.kind = "Empty" THEN RlpStr(<<>>)
    ELSE IF s.kind = "Node" THEN NodeRlp(s.node)
    ELSE RlpHash(s.key)

\* MptNode::encode: (hash, rlp)
encode(n) == LET Pair(rlp) == <<keccak256(rlp), rlp>> IN Pair(NodeRlp(n))

(***************************************************************************)
(* Deserialization of nodes (node.rs TryFrom<RlpProxy> impls).             *)
(***************************************************************************)
BadSub(n) == [kind |-> "Bad", node |-> n]

RECURSIVE from_rlp(_), SubtreeTryFrom(_)
from_rlp(it) ==
    IF it.t # "l" THEN PanicNode
    ELSE IF Len(it.items) = 2
    THEN LET Ext(hp, sub) ==
                 IF sub.kind = "Bad" THEN sub.node ELSE ExtensionNode(hp.nibbles, sub)
             Two(first, second) ==
                 IF first.t # "s" THEN ErrNode("EncodingError")
                 ELSE IF first.b = <<>> THEN PanicNode
                 ELSE IF (first.b[1] \div FLAG_MASK) % 2 = 0
                 THEN Ext(hex_prefix_decode(first.b), SubtreeTryFrom(second))
                 ELSE IF second.t # "s" THEN ErrNode("EncodingError")
                 ELSE LeafNode(hex_prefix_decode(first.b).nibbles, second.b)
         IN Two(it.items[1], it.items[2])
    ELSE IF Len(it.items) = 17
    THEN LET Seventeen(subs, bad) ==
                 IF bad # {}
                 THEN subs[CHOOSE i \in bad : \A j \in bad : i <= j].node
                 ELSE IF it.items[17].t # "s" THEN ErrNode("EncodingError")
                 ELSE BranchNode(subs, it.items[17].b)
             Decoded(subs) == Seventeen(subs, {i \in 1..16 : subs[i].kind = "Bad"})
         IN Decoded([i \in 1..16 |-> SubtreeTryFrom(it.items[i])])
    ELSE PanicNode

SubtreeTryFrom(it) ==
    IF it = RlpStr(<<>>) THEN SubEmpty
    ELSE IF RlpLen(it) <= 31
    THEN LET Wrap(n) == IF IsBad(n) THEN BadSub(n) ELSE SubNode(n)
         IN Wrap(from_rlp(it))
    ELSE IF it.t = "k" THEN SubNodeKey(it.h)
    ELSE IF it.t = "s" THEN BadSub(PanicNode)
    ELSE BadSub(ErrNode("EncodingError"))

(***************************************************************************)
(* Database (mpt.rs trait Database): a map from hash to bytes.             *)
(***************************************************************************)
Database_new == [h \in {} |-> NoneVal]

Database_insert(db, key, value) ==
    [h \in (DOMAIN db) \cup {key} |-> IF h = key THEN value ELSE db[h]]

Database_get(db, key) == IF key \in DOMAIN db THEN db[key] ELSE NoneVal

\* db.get(&dbkey)?.ok_or(SubtreeNotFound)? followed by MptNode::from_rlp
load_node(db, dbkey) ==
    IF dbkey \notin DOMAIN db THEN ErrNode("SubtreeNotFound") ELSE from_rlp(db[dbkey])

\* results of the fallible operations
Some(v)     == [st |-> "Some", v |-> v]
None        == [st |-> "None"]
Err(e)      == [st |-> "Err", err |-> e]
Panic       == [st |-> "Panic"]
BadResult(n) == IF n.type = "Panic" THEN Panic ELSE Err(n.err)

(***************************************************************************)
(* node_get / subtree_get (mpt.rs).                                        *)
(***************************************************************************)
\* the Branch arm of node_get when the key ends at the branch
node_get_branch_end(value) == Some(value)

RECURSIVE node_get(_, _, _), subtree_get(_, _, _)
node_get(root, db, ikey) ==
    IF root.type = "Leaf"
    THEN IF root.remained # ikey THEN None ELSE Some(root.value)
    ELSE IF root.type = "Extension"
    THEN LET Follow(cp) ==
                 IF cp[2] = <<>> THEN subtree_get(root.subtree, db, cp[3]) ELSE None
         IN Follow(common_prefix(root.shared, ikey))
    ELSE IF ikey = <<>> THEN node_get_branch_end(root.value)
         ELSE subtree_get(root.branchs[ikey[1] + 1], db, Tail(ikey))

subtree_get(subtree, db, key) ==
    IF subtree.kind = "Empty" THEN None
    ELSE IF subtree.kind = "Node" THEN node_get(subtree.node, db, key)
    ELSE LET Loaded(n) == IF IsBad(n) THEN BadResult(n) ELSE node_get(n, db, key)
         IN Loaded(load_node(db, subtree.key))

(***************************************************************************)
(* node_insert / subtree_insert (mpt.rs).  The result is the rebuilt node, *)
(* or an Err/Panic outcome.                                                *)
(***************************************************************************)
RECURSIVE node_insert(_, _, _, _), subtree_insert(_, _, _, _)
\* the Leaf arm without its second node_insert: the old leaf is not put back
leaf_split_second_dropped(branch, db, leaf_remained, leaf_value) == branch

\* let branch = node_insert(branch, db, leaf_remained, leaf_value)?
leaf_split_second(branch, db, leaf_remained, leaf_value) ==
    IF IsBad(branch) THEN branch
    ELSE node_insert(branch, db, leaf_remained, leaf_value)

\* the Leaf arm without its test of shared: an Extension in every case
leaf_split_wrap_always(shared, branch) ==
    IF IsBad(branch) THEN branch ELSE ExtensionNode(shared, SubNode(branch))

\* if shared.is_empty() { branch } else { ExtensionNode { shared, .. } }
leaf_split_wrap(shared, branch) ==
    IF IsBad(branch) \/ shared = <<>> THEN branch
    ELSE ExtensionNode(shared, SubNode(branch))

node_insert(root, db, ikey, ivalue) ==
    IF root.type = "Branch"
    THEN IF ikey = <<>> THEN BranchNode(root.branchs, ivalue)
         ELSE LET Put(idx, n) ==
                      IF IsBad(n) THEN n
                      ELSE BranchNode([root.branchs EXCEPT ![idx] = SubNode(n)], root.value)
              IN Put(ikey[1] + 1,
                     subtree_insert(root.branchs[ikey[1] + 1], db, Tail(ikey), ivalue))
    ELSE IF root.type = "Leaf"
    THEN LET Wrap(shared, branch) == leaf_split_wrap(shared, branch)
             Second(cp, b1) == leaf_split_second(b1, db, cp[3], root.value)
             Split(cp) ==
                 IF cp[2] = <<>> /\ cp[3] = <<>>
                 THEN LeafNode(root.remained, ivalue)
                 ELSE Wrap(cp[1], Second(cp, node_insert(BranchNode_new, db, cp[2], ivalue)))
         IN Split(common_prefix(ikey, root.remained))
    ELSE IF Len(root.shared) = 0 THEN PanicNode
    ELSE LET Wrap(shared, node) ==
                 IF IsBad(node) \/ shared = <<>> THEN node
                 ELSE ExtensionNode(shared, SubNode(node))
             Down(n) == IF IsBad(n) THEN n ELSE ExtensionNode(root.shared, SubNode(n))
             Child(rest) == IF rest = <<>> THEN root.subtree
                            ELSE SubNode(ExtensionNode(rest, root.subtree))
             Split(cp) ==
                 IF cp[3] = <<>>
                 THEN Down(subtree_insert(root.subtree, db, cp[2], ivalue))
                 ELSE Wrap(cp[1],
                           node_insert(BranchNode([BranchNode_new.branchs
                                                     EXCEPT ![cp[3][1] + 1] = Child(Tail(cp[3]))],
                                                  <<>>),
                                       db, cp[2], ivalue))
         IN Split(common_prefix(ikey, root.shared))

subtree_insert(subtree, db, key, value) ==
    IF subtree.kind = "Empty" THEN LeafNode(key, value)
    ELSE IF subtree.kind = "Node" THEN node_insert(subtree.node, db, key, value)
    ELSE LET Loaded(n) == IF IsBad(n) THEN n ELSE node_insert(n, db, key, value)
         IN Loaded(load_node(db, subtree.key))

(***************************************************************************)
(* node_collapse / subtree_collapse (mpt.rs).  The result is the collapsed *)
(* subtree (or an Err/Panic outcome) and the store after the writes.       *)
(***************************************************************************)
RECURSIVE node_collapse(_, _), subtree_collapse(_, _), collapse_branchs(_, _, _)
node_collapse(root, db) ==
    IF RlpLen(NodeRlp(root)) < 32 THEN [sub |-> SubNode(root), db |-> db]
    ELSE LET Store(e, d) ==
                 IF RlpLen(e[2]) < 32 THEN [sub |-> BadSub(PanicNode), db |-> d]
                 ELSE [sub |-> SubNodeKey(e[1]), db |-> Database_insert(d, e[1], e[2])]
             Finish(c) ==
                 IF IsBad(c.node) THEN [sub |-> BadSub(c.node), db |-> c.db]
                 ELSE Store(encode(c.node), c.db)
             OfBranch(r) ==
                 [node |-> IF IsBad(r.node) THEN r.node
                           ELSE BranchNode(r.node.branchs, root.value),
                  db   |-> r.db]
             OfExtension(r) ==
                 [node |-> IF r.sub.kind = "Bad" THEN r.sub.node
                           ELSE ExtensionNode(root.shared, r.sub),
                  db   |-> r.db]
         IN IF root.type = "Leaf" THEN Finish([node |-> root, db |-> db])
            ELSE IF root.type = "Branch"
            THEN Finish(OfBranch(collapse_branchs(root.branchs, 1, db)))
            ELSE Finish(OfExtension(subtree_collapse(root.subtree, db)))

\* for (idx, branch) in branchs.into_iter().enumerate(): collapse in order
collapse_branchs(branchs, i, db) ==
    IF i > 16 THEN [node |-> BranchNode(branchs, <<>>), db |-> db]
    ELSE LET Step(r) ==
                 IF r.sub.kind = "Bad" THEN [node |-> r.sub.node, db |-> r.db]
                 ELSE collapse_branchs([branchs EXCEPT ![i] = r.sub], i + 1, r.db)
         IN Step(subtree_collapse(branchs[i], db))

\* subtree_collapse that leaves an inline child as it is, whatever its size
subtree_collapse_kept(subtree, db) == [sub |-> subtree, db |-> db]

subtree_collapse(subtree, db) ==
    IF subtree.kind = "Node" THEN node_collapse(subtree.node, db)
    ELSE [sub |-> subtree, db |-> db]

(***************************************************************************)
(* node_proof / subtree_proof (mpt.rs).  The result is the verdict (or an  *)
(* Err/Panic outcome) and the proof store after the inserts.               *)
(***************************************************************************)
\* the Branch arm of node_proof when the key ends at the branch
node_proof_branch_end(value) == FALSE

RECURSIVE node_proof(_, _, _, _), subtree_proof(_, _, _, _)
node_proof(root, db, proof, ikey) ==
    LET Follow(p, cp) ==
            IF cp[2] = <<>> THEN subtree_proof(root.subtree, db, p, cp[3])
            ELSE [res |-> Some(FALSE), proof |-> p]
        Walk(p) ==
            IF root.type = "Leaf"
            THEN [res |-> Some(root.remained = ikey), proof |-> p]
            ELSE IF root.type = "Extension"
            THEN Follow(p, common_prefix(root.shared, ikey))
            ELSE IF ikey = <<>>
                 THEN [res |-> Some(node_proof_branch_end(root.value)), proof |-> p]
                 ELSE subtree_proof(root.branchs[ikey[1] + 1], db, p, Tail(ikey))
        Record(e) == Walk(Database_insert(proof, e[1], e[2]))
    IN Record(encode(root))

subtree_proof(subtree, db, proof, ikey) ==
    IF subtree.kind = "Empty" THEN [res |-> Some(FALSE), proof |-> proof]
    ELSE IF subtree.kind = "Node" THEN node_proof(subtree.node, db, proof, ikey)
    ELSE LET Loaded(n) ==
                 IF IsBad(n) THEN [res |-> BadResult(n), proof |-> proof]
                 ELSE node_proof(n, db, proof, ikey)
         IN Loaded(load_node(db, subtree.key))

(***************************************************************************)
(* verify_proof (proof.rs).                                                *)
(***************************************************************************)
verify_proof(rh, proof, key) ==
    LET Verdict(r) == IF r.st \in {"Some", "None"} THEN Some(r.st = "Some") ELSE r
        Walk(n) ==
            IF IsBad(n) THEN BadResult(n)
            ELSE Verdict(node_get(n, proof, bytes_to_nibbles(to_bytes(key))))
    IN IF rh \notin DOMAIN proof THEN Some(FALSE)
       ELSE Walk(from_rlp(proof[rh]))

(***************************************************************************)
(* The public operations of Trie (mpt.rs), as functions of the trie's      *)
(* fields.                                                                 *)
(***************************************************************************)
Trie_insert(rt, d, key, value) ==
    IF rt = NoneVal
    THEN LeafNode(bytes_to_nibbles(to_bytes(key)), to_bytes(value))
    ELSE node_insert(rt, d, bytes_to_nibbles(to_bytes(key)), to_bytes(value))

\* insert that stores the root it has built right away
insert_done_stored(n, d, drt, rh) ==
    LET Put(e) == [root |-> n, db |-> Database_insert(d, e[1], e[2]),
                   dirty |-> TRUE, root_hash |-> rh]
    IN Put(encode(n))

\* the fields of the trie when insert returns Ok, n being the root built:
\* self.root = Some(n); self.dirty = true
insert_done(n, d, drt, rh) ==
    [root |-> n, db |-> d, dirty |-> TRUE, root_hash |-> rh]

Trie_get(rt, d, key) ==
    LET Decode(r) == IF r.st = "Some" THEN from_bytes(r.v) ELSE r
    IN IF rt = NoneVal THEN None
       ELSE Decode(node_get(rt, d, bytes_to_nibbles(to_bytes(key))))

\* self.db.insert(&dbkey, rlp)? for a root shorter than 32 bytes: evaluated as
\* commit_store_root, such a root would be returned without being stored
commit_store_root_skip(d, e) == d

commit_store_root(d, e) == Database_insert(d, e[1], e[2])

\* if !self.dirty { return Ok(self.root_hash.clone()) }: evaluated as
\* commit_not_dirty, a clean trie would come back with no root hash
commit_not_dirty_none(rt, d, drt, rh) ==
    [root |-> rt, db |-> d, dirty |-> drt, root_hash |-> rh, ret |-> Some(NoneVal)]

commit_not_dirty(rt, d, drt, rh) ==
    [root |-> rt, db |-> d, dirty |-> drt, root_hash |-> rh, ret |-> Some(rh)]

\* the Subtree::Node arm without its assignment of self.root_hash
commit_node_arm_hash_kept(n, d2, e, rh) ==
    [root |-> n, db |-> commit_store_root(d2, e),
     dirty |-> FALSE, root_hash |-> rh, ret |-> Some(rh)]

\* Subtree::Node(node): store the root, record its hash, keep the node
commit_node_arm(n, d2, e, rh) ==
    [root |-> n, db |-> commit_store_root(d2, e),
     dirty |-> FALSE, root_hash |-> e[1], ret |-> Some(e[1])]

\* the trie after commit() and the value commit() returns
Trie_commit(rt, d, drt, rh) ==
    LET Failed(d2, n) ==
            [root |-> NoneVal, db |-> d2, dirty |-> drt, root_hash |-> rh,
             ret |-> BadResult(n)]
        OfNode(n, d2, e) == commit_node_arm(n, d2, e, rh)
        OfNodeKey(dbkey, d2, n) ==
            IF IsBad(n) THEN Failed(d2, n)
            ELSE [root |-> n, db |-> d2, dirty |-> FALSE,
                  root_hash |-> dbkey, ret |-> Some(dbkey)]
        Collapsed(c) ==
            IF c.sub.kind = "Bad" THEN Failed(c.db, c.sub.node)
            ELSE IF c.sub.kind = "Node" THEN OfNode(c.sub.node, c.db, encode(c.sub.node))
            ELSE OfNodeKey(c.sub.key, c.db, load_node(c.db, c.sub.key))
    IN IF ~drt THEN commit_not_dirty(rt, d, drt, rh)
       ELSE IF rt = NoneVal
       THEN [root |-> NoneVal, db |-> d, dirty |-> FALSE, root_hash |-> NoneVal,
             ret |-> Some(NoneVal)]
       ELSE Collapsed(node_collapse(rt, d))

\* commit() on a store whose insert returns Err(DatabaseError).  The collapse
\* reads nothing from the store, so what it writes is what it leaves in an
\* empty one; if that is anything, the first db.insert (mpt.rs:213, or :134
\* for a root kept inline) returns the error through `?`, after
\* mem::replace has emptied self.root (mpt.rs:129) and before root_hash and
\* dirty are assigned.
Trie_commit_insert_fails(rt, d, drt, rh) ==
    LET Down(w) ==
            IF w.db = Database_new THEN Trie_commit(rt, d, drt, rh)
            ELSE [root |-> NoneVal, db |-> d, dirty |-> drt, root_hash |-> rh,
                  ret |-> Err("DatabaseError")]
    IN Down(Trie_commit(rt, Database_new, drt, rh))

\* revert that takes a hash the store does not hold for the empty state
Trie_revert_absent_ok(rt, d, drt, h) ==
    LET Loaded(n) ==
            IF IsBad(n) THEN [root |-> rt, dirty |-> drt, ret |-> BadResult(n)]
            ELSE [root |-> n, dirty |-> FALSE, ret |-> None]
    IN IF h \notin DOMAIN d THEN [root |-> NoneVal, dirty |-> FALSE, ret |-> None]
       ELSE Loaded(from_rlp(d[h]))

\* the root and dirty fields after revert(h) and the result: None stands for
\* Ok(self)
Trie_revert(rt, d, drt, h) ==
    LET Loaded(n) ==
            IF IsBad(n) THEN [root |-> rt, dirty |-> drt, ret |-> BadResult(n)]
            ELSE [root |-> n, dirty |-> FALSE, ret |-> None]
    IN IF h \notin DOMAIN d
       THEN [root |-> rt, dirty |-> drt, ret |-> Err("StateNotFound")]
       ELSE Loaded(from_rlp(d[h]))

\* the trie after get_proof(key) and the (proof, exists) it returns
Trie_get_proof(rt, d, drt, rh, key) ==
    LET Result(t, r) == [trie |-> t, ret |-> r.res, proof |-> r.proof]
        Proof(t) ==
            IF t.ret.st # "Some" THEN [trie |-> t, ret |-> t.ret, proof |-> Database_new]
            ELSE IF t.root = NoneVal
            THEN Result(t, [res |-> Some(FALSE), proof |-> Database_new])
            ELSE Result(t, node_proof(t.root, t.db, Database_new,
                                      bytes_to_nibbles(to_bytes(key))))
    IN IF drt THEN Proof(Trie_commit(rt, d, drt, rh))
       ELSE Proof([root |-> rt, db |-> d, dirty |-> drt, root_hash |-> rh,
                   ret |-> Some(rh)])

(***************************************************************************)
(* State.                                                                  *)
(*   root, db, dirty, root_hash   the fields of the Trie                   *)
(*   proof                        the proof store last handed to a caller  *)
(*   last                         the last operation and what it returned  *)
(*   latest                       the inserted keys of the current state,  *)
(*                                each with the value of its latest insert *)
(*   inserted                     the keys ever passed to insert           *)
(*   committed                    root hash returned by commit() -> what   *)
(*                                get and the key map were at that moment  *)
(*   since                        whether commit() has returned a root     *)
(*                                hash, the last one it returned, and      *)
(*                                whether insert was called after that     *)
(*   cnt                          operations performed, per kind           *)
(***************************************************************************)
VARIABLES root, db, dirty, root_hash, proof, last, latest, inserted, committed,
          since, cnt

vars == <<root, db, dirty, root_hash, proof, last, latest, inserted, committed,
          since, cnt>>

GetAll(rt, d) == [k \in Keys |-> Trie_get(rt, d, k)]

\* Trie::new(db) over an empty store
Init ==
    /\ root = NoneVal
    /\ db = Database_new
    /\ dirty = FALSE
    /\ root_hash = NoneVal
    /\ proof = Database_new
    /\ last = [op |-> "new"]
    /\ latest = <<>>
    /\ inserted = {}
    /\ committed = [h \in {} |-> NoneVal]
    /\ since = [com |-> FALSE, ret |-> NoneVal, ins |-> FALSE]
    /\ cnt = [ins |-> 0, com |-> 0, rev |-> 0, prf |-> 0, tam |-> 0, fail |-> 0]

Insert(k, v) ==
    /\ \E n \in {Trie_insert(root, db, k, v)} :
          IF IsBad(n)
          THEN /\ last' = [op |-> "insert", key |-> k, ret |-> BadResult(n)]
               /\ UNCHANGED <<root, db, dirty, root_hash, latest, inserted>>
          ELSE /\ \E t \in {insert_done(n, db, dirty, root_hash)} :
                     /\ root' = t.root
                     /\ db' = t.db
                     /\ dirty' = t.dirty
                     /\ root_hash' = t.root_hash
               /\ latest' = [x \in (DOMAIN latest) \cup {k} |->
                               IF x = k THEN v ELSE latest[x]]
               /\ inserted' = inserted \cup {k}
               /\ last' = [op |-> "insert", key |-> k, ret |-> None]
    /\ since' = [since EXCEPT !.ins = TRUE]
    /\ cnt' = [cnt EXCEPT !.ins = @ + 1]
    /\ UNCHANGED <<proof, committed>>

Commit ==
    /\ cnt.com < MaxCommits
    /\ \E t \in {Trie_commit(root, db, dirty, root_hash)} :
          /\ root' = t.root
          /\ db' = t.db
          /\ dirty' = t.dirty
          /\ root_hash' = t.root_hash
          /\ last' = [op |-> "commit", ret |-> t.ret,
                       again |-> since.com /\ ~since.ins,
                       was_dirty |-> dirty,
                       before |-> GetAll(root, db)]
          /\ since' = IF t.ret.st = "Some"
                      THEN [com |-> TRUE, ret |-> t.ret.v, ins |-> FALSE]
                      ELSE since
          /\ committed' =
                IF t.ret.st = "Some" /\ t.ret.v # NoneVal
                THEN [h \in (DOMAIN committed) \cup {t.ret.v} |->
                        IF h = t.ret.v
                        THEN [gets |-> GetAll(t.root, t.db), latest |-> latest]
                        ELSE committed[h]]
                ELSE committed
    /\ cnt' = [cnt EXCEPT !.com = @ + 1]
    /\ UNCHANGED <<proof, latest, inserted>>

Revert(h) ==
    /\ cnt.rev < MaxReverts
    /\ \E t \in {Trie_revert(root, db, dirty, h)} :
          /\ root' = t.root
          /\ dirty' = t.dirty
          /\ last' = [op |-> "revert", h |-> h, ret |-> t.ret]
          /\ latest' = IF t.ret = None /\ h \in DOMAIN committed
                       THEN committed[h].latest ELSE latest
    /\ cnt' = [cnt EXCEPT !.rev = @ + 1]
    /\ UNCHANGED <<db, root_hash, proof, inserted, committed, since>>

GetProof(k) ==
    /\ cnt.prf < MaxProofs
    /\ \E r \in {Trie_get_proof(root, db, dirty, root_hash, k)} :
          /\ root' = r.trie.root
          /\ db' = r.trie.db
          /\ dirty' = r.trie.dirty
          /\ root_hash' = r.trie.root_hash
          /\ proof' = r.proof
          /\ last' = [op |-> "get_proof", key |-> k, ret |-> r.ret]
    /\ cnt' = [cnt EXCEPT !.prf = @ + 1]
    /\ UNCHANGED <<latest, inserted, committed, since>>

\* an RLP list of three byte strings: the encoding of no node
ThreeItems == RlpList(<<RlpStr(<<>>), RlpStr(<<120>>), RlpStr(<<>>)>>)

\* a hash under which nothing is ever stored: that of the empty byte string
UnknownHash == keccak256(RlpStr(<<>>))

\* A holder of the proof store rewrites the value stored under one hash:
\* with a Leaf of another value, or with a list that is no node.
TamperValues(h) ==
    LET Path(n) == IF ~IsBad(n) /\ n.type = "Leaf" THEN n.remained ELSE <<>>
        Leaves(p) == {NodeRlp(LeafNode(p, to_bytes(v))) : v \in Values}
    IN (Leaves(Path(from_rlp(proof[h]))) \cup {ThreeItems}) \ {proof[h]}

Tamper(h, rlp) ==
    /\ cnt.tam < MaxTampers
    /\ h \in DOMAIN proof
    /\ rlp \in TamperValues(h)
    /\ proof' = [proof EXCEPT ![h] = rlp]
    /\ last' = [op |-> "tamper", h |-> h]
    /\ cnt' = [cnt EXCEPT !.tam = @ + 1]
    /\ UNCHANGED <<root, db, dirty, root_hash, latest, inserted, committed, since>>

Next ==
    \/ cnt.ins < MaxInserts /\ \E k \in Keys, v \in Values : Insert(k, v)
    \/ Commit
    \/ \E h \in (DOMAIN committed) \cup {UnknownHash} : Revert(h)
    \/ \E k \in Keys : GetProof(k)
    \/ \E h \in DOMAIN proof : \E rlp \in TamperValues(h) : Tamper(h, rlp)

Spec == Init /\ [][Next]_vars

(***************************************************************************)
(* The trie over a store that can refuse a write: insert and commit as     *)
(* above, and a commit() during which the store's insert returns           *)
(* Err(DatabaseError).                                                     *)
(***************************************************************************)
CommitStoreDown ==
    /\ cnt.fail < MaxFails
    /\ \E t \in {Trie_commit_insert_fails(root, db, dirty, root_hash)} :
          /\ root' = t.root
          /\ db' = t.db
          /\ dirty' = t.dirty
          /\ root_hash' = t.root_hash
          /\ last' = [op |-> "commit", ret |-> t.ret,
                       again |-> since.com /\ ~since.ins,
                       was_dirty |-> dirty,
                       before |-> GetAll(root, db),
                       hash |-> Trie_commit(root, db, dirty, root_hash).ret]
          /\ since' = IF t.ret.st = "Some"
                      THEN [com |-> TRUE, ret |-> t.ret.v, ins |-> FALSE]
                      ELSE since
    /\ cnt' = [cnt EXCEPT !.fail = @ + 1]
    /\ UNCHANGED <<proof, latest, inserted, committed>>

FaultNext ==
    \/ cnt.ins < MaxInserts /\ \E k \in Keys, v \in Values : Insert(k, v)
    \/ Commit
    \/ CommitStoreDown

FaultSpec == Init /\ [][FaultNext]_vars

(***************************************************************************)
(* The shape of the tree: insert, commit and revert only, with one more    *)
(* insert and one more key, "\"" = <<34>>, whose path leaves the others at *)
(* their first nibble, so that an Extension gets split.                    *)
(***************************************************************************)
EditKeys == Keys \cup {<<34>>}

EditNext ==
    \/ cnt.ins < MaxEdits /\ \E k \in EditKeys, v \in Values : Insert(k, v)
    \/ Commit
    \/ \E h \in DOMAIN committed : Revert(h)

EditSpec == Init /\ [][EditNext]_vars

(***************************************************************************)
(* The nibble functions of hex_prefix.rs on their own: a step from the     *)
(* initial state applies one of them to an input and records the input and *)
(* the output in last.                                                     *)
(***************************************************************************)
MaxBytes   == 1
MaxNibbles == 2

SeqsUpTo(S, n) == UNION {[1..m -> S] : m \in 0..n}
ByteStrings    == SeqsUpTo(0..255, MaxBytes)
NibblePaths    == SeqsUpTo(0..15, MaxNibbles)

ToNibbles(src) ==
    /\ last' = [op |-> "bytes_to_nibbles", src |-> src, out |-> bytes_to_nibbles(src)]
    /\ UNCHANGED <<root, db, dirty, root_hash, proof, latest, inserted, committed,
                   since, cnt>>

HexPrefix(p, f) ==
    /\ \E enc \in {hex_prefix_encode(p, f)} :
          last' = [op |-> "hex_prefix", src |-> p, flag |-> f, enc |-> enc,
                   out |-> hex_prefix_decode(enc)]
    /\ UNCHANGED <<root, db, dirty, root_hash, proof, latest, inserted, committed,
                   since, cnt>>

NibbleNext ==
    \/ last.op = "new" /\ \E src \in ByteStrings : ToNibbles(src)
    \/ last.op = "new" /\ \E p \in NibblePaths, f \in BOOLEAN : HexPrefix(p, f)

NibbleSpec == Init /\ [][NibbleNext]_vars

(***************************************************************************)
(* Properties.                                                             *)
(***************************************************************************)
IsSome(r) == r.st = "Some"

\* every root hash a caller has seen: those commit() returned and the
\* recorded one
RootHashes == (DOMAIN committed) \cup ({root_hash} \ {NoneVal})

\* C1: insert-get.  As long as no revert has happened, get(k) returns, for
\* every inserted key k, the value of the most recent insert of k.
C1_InsertGet ==
    cnt.rev = 0 =>
        \A k \in Keys :
            k \in DOMAIN latest => Trie_get(root, db, k) = Some(latest[k])

\* C2: miss on absent keys.  get(k) returns None for every key k that was
\* never inserted.
C2_MissOnAbsent ==
    \A k \in Keys \ inserted : Trie_get(root, db, k) = None

\* the root hash of a new trie after inserting the pairs of the map m in the
\* fixed order of ks and committing
RECURSIVE InsertAll(_, _, _)
InsertAll(rt, m, ks) ==
    IF ks = <<>> THEN rt
    ELSE InsertAll(IF Head(ks) \notin DOMAIN m THEN rt
                   ELSE Trie_insert(rt, Database_new, Head(ks), m[Head(ks)]),
                   m, Tail(ks))

KeyOrder == <<<<97>>, <<113>>, <<129>>, <<130>>>>

ReferenceRoot(m) ==
    Trie_commit(InsertAll(NoneVal, m, KeyOrder), Database_new, TRUE, NoneVal).ret

\* C3: order independence.  As long as no revert has happened, the root hash
\* commit() returns is the one obtained by inserting the final key -> value
\* map once, in a fixed order, into a new trie.
C3_OrderIndependence ==
    (cnt.rev = 0 /\ last.op = "commit" /\ inserted # {}) =>
        last.ret = ReferenceRoot(latest)

\* C4: revert round-trip.  After a successful revert(h), get(k) returns for
\* every key what it returned when commit() returned h.
C4_RevertRoundTrip ==
    (last.op = "revert" /\ last.ret = None) =>
        GetAll(root, db) = committed[last.h].gets

\* C5: after a successful revert(h) the recorded root hash is h and dirty is
\* false, so that root_hash() and a following commit() both return Some(h).
C5_RevertSetsRootHash ==
    (last.op = "revert" /\ last.ret = None) =>
        /\ dirty = FALSE
        /\ root_hash = last.h
        /\ Trie_commit(root, db, dirty, root_hash).ret = Some(last.h)

\* C6: proof completeness.  Right after (P, _) = get_proof(k), with r the
\* recorded root hash, verify_proof(r, P, k) is exactly get(k).is_some().
C6_ProofCompleteness ==
    (last.op = "get_proof" /\ IsSome(last.ret) /\ root_hash # NoneVal) =>
        \E g \in {Trie_get(root, db, last.key)} :
            /\ g.st \in {"Some", "None"}
            /\ verify_proof(root_hash, proof, last.key) = Some(IsSome(g))

\* C7: the boolean get_proof(k) returns equals get(k).is_some().
C7_ProofExistsFlag ==
    (last.op = "get_proof" /\ IsSome(last.ret)) =>
        last.ret.v = IsSome(Trie_get(root, db, last.key))

\* C8: proof of non-existence.  For a key k that was never inserted,
\* get_proof(k) returns exists = false and verify_proof returns false for
\* the current and for every earlier committed root hash.
C8_ProofOfNonExistence ==
    (last.op = "get_proof" /\ IsSome(last.ret) /\ last.key \notin inserted) =>
        /\ last.ret.v = FALSE
        /\ \A r \in RootHashes : verify_proof(r, proof, last.key) = Some(FALSE)

\* the entries of a store whose value does not hash to its key
Altered(p) == {h \in DOMAIN p : keccak256(p[h]) # h}

\* C9: proof soundness.  On a proof store with an altered entry,
\* verify_proof returns true for no root hash and no key.
C9_ProofSoundness ==
    Altered(proof) # {} =>
        \A r \in RootHashes \cup DOMAIN proof : \A k \in Keys :
            verify_proof(r, proof, k) # Some(TRUE)

\* C10: verify_proof returns the verdict false, never the SubtreeNotFound
\* error, when the walk reaches a hash that the proof store does not hold.
C10_MissingNodeIsFalse ==
    \A r \in RootHashes \cup DOMAIN proof : \A k \in Keys :
        verify_proof(r, proof, k) # Err("SubtreeNotFound")

\* C11: commit idempotence.  A commit() called when commit() has returned
\* before and insert has not been called since returns what that commit
\* returned and leaves the store, the in-memory root and root_hash as they
\* were.
C11_CommitIdempotence ==
    [][(last'.op = "commit" /\ cnt'.com = cnt.com + 1 /\ since.com /\ ~since.ins) =>
          /\ last'.ret = Some(since.ret)
          /\ db' = db
          /\ root' = root
          /\ root_hash' = root_hash]_vars

\* a second commit() with no insert in between has returned, on a trie that
\* holds something
C11_Witness ==
    /\ last.op = "commit"
    /\ last.again
    /\ last.ret = Some(root_hash)
    /\ root_hash # NoneVal

\* C12: bytes_to_nibbles turns every byte b into the two nibbles b div 16,
\* b mod 16, in that order (so that different byte strings give different
\* nibble paths).
C12_HighNibbleFirst ==
    last.op = "bytes_to_nibbles" =>
        last.out = [i \in 1..(2 * Len(last.src)) |->
                      IF i % 2 = 1 THEN last.src[(i + 1) \div 2] \div 16
                                   ELSE last.src[i \div 2] % 16]

\* the Hash references of a node, those of its inline children included
RECURSIVE NodeRefs(_), SubtreeRefs(_)
NodeRefs(n) ==
    IF n.type = "Extension" THEN SubtreeRefs(n.subtree)
    ELSE IF n.type = "Branch" THEN UNION {SubtreeRefs(n.branchs[i]) : i \in 1..16}
    ELSE {}

SubtreeRefs(s) ==
    IF s.kind = "NodeKey" THEN {s.key}
    ELSE IF s.kind = "Node" THEN NodeRefs(s.node)
    ELSE {}

\* the store d holds a node under h and under every hash reachable from it
RECURSIVE Closed(_, _)
Closed(d, h) ==
    /\ h \in DOMAIN d
    /\ LET Below(n) == ~IsBad(n) /\ \A c \in NodeRefs(n) : Closed(d, c)
       IN Below(from_rlp(d[h]))

\* C13: store closure.  For every root hash H commit() has returned, the
\* store holds H and every hash reachable from the node under H; no get on
\* the state of H, and none on the current state, fails with
\* SubtreeNotFound.
C13_StoreClosure ==
    /\ \A h \in DOMAIN committed :
          /\ Closed(db, h)
          /\ \A k \in Keys :
                Trie_get(from_rlp(db[h]), db, k) # Err("SubtreeNotFound")
    /\ \A k \in Keys : Trie_get(root, db, k) # Err("SubtreeNotFound")

\* commit() has returned a root hash whose node refers to a child by hash
C13_Witness ==
    \E h \in DOMAIN committed :
        h \in DOMAIN db /\ NodeRefs(from_rlp(db[h])) # {}

\* C14: every entry of the proof store that get_proof returns is an entry of
\* the main store of the trie.
C14_ProofWithinStore ==
    (last.op = "get_proof" /\ IsSome(last.ret)) =>
        \A h \in DOMAIN proof : h \in DOMAIN db /\ db[h] = proof[h]

\* C15: hex-prefix round trip.  For every nibble sequence p, of even or odd
\* length or empty, and every flag f, hex_prefix_decode(hex_prefix_encode(p, f))
\* is (p, f).
C15_HexPrefixRoundTrip ==
    last.op = "hex_prefix" =>
        last.out = [nibbles |-> last.src, flag |-> last.flag]

\* a flagged sequence of odd length has been encoded and decoded
C15_Witness ==
    /\ last.op = "hex_prefix"
    /\ Len(last.src) % 2 = 1
    /\ last.flag
    /\ last.enc = <<48 + last.src[1]>>
    /\ last.out.nibbles = last.src

\* C16: a stored node that is an RLP list of an arity other than 2 or 17
\* decodes to the EncodingError result, never to a panic: verify_proof from
\* such an entry returns that error for every key.
C16_ArityIsAnError ==
    \A h \in DOMAIN proof :
        (proof[h].t = "l" /\ Len(proof[h].items) \notin {2, 17}) =>
            /\ from_rlp(proof[h]) = ErrNode("EncodingError")
            /\ \A k \in Keys : verify_proof(h, proof, k) = Err("EncodingError")

\* C17: revert(h) with a hash h the store does not hold returns the
\* StateNotFound error, whatever the state of the trie, and leaves the store
\* as it was.
C17_RevertAbsent ==
    [][(last'.op = "revert" /\ cnt'.rev = cnt.rev + 1 /\ last'.h \notin DOMAIN db) =>
          /\ last'.ret = Err("StateNotFound")
          /\ db' = db]_vars

\* revert with an absent hash has returned StateNotFound on a trie that has
\* committed nodes and edits not yet committed
C17_Witness ==
    /\ last.op = "revert"
    /\ last.h \notin DOMAIN db
    /\ last.ret = Err("StateNotFound")
    /\ db # Database_new
    /\ dirty

C19_FailedCommitKeepsContents ==
    (last.op = "commit" /\ last.ret = Err("DatabaseError")) =>
        /\ GetAll(root, db) = last.before
        /\ dirty
        /\ Trie_commit(root, db, dirty, root_hash).ret = last.hash

\* C20: commit changes the representation only.  Right after a successful
\* commit(), get(k) returns for every key what it returned right before; and
\* after an insert that follows a commit (no revert having happened), get(k)
\* returns for every inserted key the value of its latest insert.
C20_CommitKeepsContents ==
    /\ (last.op = "commit" /\ IsSome(last.ret)) => GetAll(root, db) = last.before
    /\ (since.com /\ since.ret # NoneVal /\ cnt.rev = 0
            /\ last.op = "insert" /\ last.ret = None) =>
          \A k \in DOMAIN latest : Trie_get(root, db, k) = Some(latest[k])

\* the nodes of the tree under a node: the inline ones and those the store
\* holds under the hashes met on the way
RECURSIVE TreeNodes(_, _), SubtreeNodes(_, _)
TreeNodes(n, d) ==
    {n} \cup (IF n.type = "Extension" THEN SubtreeNodes(n.subtree, d)
              ELSE IF n.type = "Branch"
              THEN UNION {SubtreeNodes(n.branchs[i], d) : i \in 1..16}
              ELSE {})

SubtreeNodes(s, d) ==
    IF s.kind = "Node" THEN TreeNodes(s.node, d)
    ELSE IF s.kind = "NodeKey"
    THEN LET Under(n) == IF IsBad(n) THEN {n} ELSE TreeNodes(n, d)
         IN Under(load_node(d, s.key))
    ELSE {}

Tree(rt, d) == IF rt = NoneVal THEN {} ELSE TreeNodes(rt, d)

Children(n) == {i \in 1..16 : n.branchs[i].kind # "Empty"}

\* C21: no pass-through Branch.  Every Branch of the tree has a value or at
\* least two children that are not Empty.
C21_NoPassThroughBranch ==
    \A n \in Tree(root, db) :
        n.type = "Branch" => (n.value # <<>> \/ Cardinality(Children(n)) >= 2)

\* the split of an Extension has left a Branch with no value at the root,
\* one of whose two children is the rest of the Extension
C21_Witness ==
    /\ root # NoneVal
    /\ root.type = "Branch"
    /\ root.value = <<>>
    /\ Cardinality(Children(root)) = 2
    /\ \E i \in Children(root) :
          root.branchs[i].kind = "Node" /\ root.branchs[i].node.type = "Extension"

\* C22: every Extension has a non-empty shared path, in the tree and in the
\* trees of the committed root hashes, and no insert stops at the assertion
\* shared.len() > 0.
C22_ExtensionSharedNonEmpty ==
    /\ \A n \in Tree(root, db) : n.type = "Extension" => Len(n.shared) > 0
    /\ \A h \in DOMAIN committed : \A n \in Tree(from_rlp(db[h]), db) :
          n.type = "Extension" => Len(n.shared) > 0
    /\ last.op = "insert" => last.ret # Panic

\* an insert has split an Extension and left the rest of its path, one
\* nibble, in an Extension below the new Branch
C22_Witness ==
    /\ last.op = "insert"
    /\ last.ret = None
    /\ \E n \in Tree(root, db) : n.type = "Extension" /\ Len(n.shared) = 1

\* the child references in the encoding of a node: the first sixteen items
\* of a Branch, the second item of an Extension (flag bit clear)
ChildItems(it) ==
    IF Len(it.items) = 17 THEN {it.items[i] : i \in 1..16}
    ELSE IF Len(it.items) = 2 /\ (it.items[1].b[1] \div FLAG_MASK) % 2 = 0
    THEN {it.items[2]}
    ELSE {}

\* every child of the encoding it, and of the encodings embedded in it, is
\* embedded when shorter than 32 bytes and is otherwise the hash of an
\* encoding that the store d holds
RECURSIVE SplitByLength(_, _)
SplitByLength(it, d) ==
    \A c \in ChildItems(it) :
        \/ c.t = "s" /\ c.b = <<>>
        \/ c.t = "l" /\ RlpLen(c) < 32 /\ SplitByLength(c, d)
        \/ c.t = "k" /\ c.h \in DOMAIN d /\ keccak256(d[c.h]) = c.h
                     /\ RlpLen(d[c.h]) >= 32

\* C23: the Inline/Hash rule.  In every node that commit has written to the
\* store, a child of fewer than 32 encoded bytes is embedded and any other
\* child is referred to by its hash and is in the store.
C23_InlineHashRule ==
    \A h \in DOMAIN db : SplitByLength(db[h], db)

\* commit has written a node with an embedded child and a hashed child
C23_Witness ==
    \E h \in DOMAIN db :
        /\ \E c \in ChildItems(db[h]) : c.t = "l"
        /\ \E c \in ChildItems(db[h]) : c.t = "k"

\* C24: after a successful commit() of a dirty trie that is not empty, the
\* store holds the encoding of the in-memory root under its hash, and
\* root_hash is that hash.
C24_RootIsStored ==
    (last.op = "commit" /\ IsSome(last.ret) /\ last.was_dirty /\ root # NoneVal) =>
        /\ root_hash = keccak256(NodeRlp(root))
        /\ root_hash \in DOMAIN db
        /\ db[root_hash] = NodeRlp(root)

\* a dirty trie whose root encodes to fewer than 32 bytes has been committed
C24_Witness ==
    /\ last.op = "commit"
    /\ IsSome(last.ret)
    /\ last.was_dirty
    /\ root # NoneVal
    /\ RlpLen(NodeRlp(root)) < 32
    /\ root_hash \in DOMAIN db

\* C25: the assertion rlp.len() >= 32 of node_collapse never fails.  Every
\* node of the tree whose encoding has 32 bytes or more is collapsed to a
\* hash, that is, its encoding after the collapse of its children passes the
\* assertion; no commit() has stopped at it.
C25_CollapseAssertion ==
    /\ \A n \in Tree(root, db) :
          (~IsBad(n) /\ RlpLen(NodeRlp(n)) >= 32) =>
              node_collapse(n, db).sub.kind = "NodeKey"
    /\ last.op = "commit" => last.ret # Panic

\* the tree holds a node of 32 bytes or more whose encoding gets shorter
\* when its children are collapsed
C25_Witness ==
    /\ dirty
    /\ \E n \in Tree(root, db) :
          /\ ~IsBad(n)
          /\ RlpLen(NodeRlp(n)) >= 32
          /\ LET Shorter(c) ==
                     /\ c.sub.kind = "NodeKey"
                     /\ RlpLen(c.db[c.sub.key]) < RlpLen(NodeRlp(n))
             IN Shorter(node_collapse(n, db))

====
